---- MODULE Spec2Model ----
(***************************************************************************)
(* Model of the Streamlit travel planner in src/main.py.                   *)
(*                                                                         *)
(* The script is re-executed top to bottom on every widget interaction;    *)
(* each action below is one such execution.  Texts are sequences of        *)
(* lexemes: a lexeme is one character (a backtick, a quote, a brace, a     *)
(* digit, a blank, a newline ...) or a word of letters that contains no    *)
(* backtick, no quote and does not start with "json"; the text it stands   *)
(* for is the concatenation of its lexemes, so substring search for the    *)
(* fence markers behaves on lexeme sequences as it does on the characters. *)
(***************************************************************************)
EXTENDS Integers, Sequences, FiniteSets, TLC

\* ------------------------------------------------------------------------
\* Python values
\* ------------------------------------------------------------------------

\* Python None
None == [t |-> "none", v |-> 0]

PyStr(s) == [t |-> "str", v |-> s]
PyNum(n) == [t |-> "num", v |-> n]
PyList(s) == [t |-> "arr", v |-> s]
PyDict(f) == [t |-> "obj", v |-> f]

EmptyDict == PyDict([k \in {} |-> None])

\* d[k] = v on a dict
DictSet(d, k, val) ==
    PyDict([x \in (DOMAIN d.v) \cup {k} |-> IF x = k THEN val ELSE d.v[x]])

\* k in d
Has(d, k) == d.t = "obj" /\ k \in DOMAIN d.v

\* ------------------------------------------------------------------------
\* str operations used by the response cleaning (main.py 143-147)
\* ------------------------------------------------------------------------

Whitespace == {" ", "\n"}

At(t, i) == IF i \in 1..Len(t) THEN t[i] ELSE "<eof>"

\* sep occurs in t at position i
MatchAt(t, sep, i) ==
    /\ i >= 1
    /\ i + Len(sep) - 1 <= Len(t)
    /\ \A k \in 1..Len(sep) : t[i + k - 1] = sep[k]

\* sep in t
Contains(t, sep) == \E i \in 1..Len(t) : MatchAt(t, sep, i)


Min(S) == CHOOSE m \in S : \A n \in S : m <= n

\* index of the first occurrence of sep in t, 0 when there is none
Find(t, sep) ==
    LET hits == {i \in 1..Len(t) : MatchAt(t, sep, i)} IN
    IF hits = {} THEN 0 ELSE Min(hits)

\* t.split(sep): the list of the pieces between the occurrences of sep
RECURSIVE Split(_, _)
Split(t, sep) ==
    LET i == Find(t, sep) IN
    IF i = 0 THEN <<t>>
    ELSE <<SubSeq(t, 1, i - 1)>> \o Split(SubSeq(t, i + Len(sep), Len(t)), sep)

RECURSIVE LStrip(_)
LStrip(t) ==
    IF t # <<>> /\ Head(t) \in Whitespace THEN LStrip(Tail(t)) ELSE t

RECURSIVE RStrip(_)
RStrip(t) ==
    IF t # <<>> /\ t[Len(t)] \in Whitespace
    THEN RStrip(SubSeq(t, 1, Len(t) - 1)) ELSE t

\* t.strip()
Strip(t) == RStrip(LStrip(t))

\* the backquote character, U+0060 (spelled out: the character cannot occur
\* in a TLA+ string literal)
Backquote == "<backquote>"

Fence == <<Backquote, Backquote, Backquote>>
FenceJson == Fence \o <<"json">>

\* main.py 144-147: the fence stripping, on the already stripped text
CleanResponse(text) ==
    IF Contains(text, FenceJson)
    THEN Strip(Split(Split(text, FenceJson)[2], Fence)[1])
    ELSE IF Contains(text, Fence)
    THEN Strip(Split(Split(text, Fence)[2], Fence)[1])
    ELSE text

\* ------------------------------------------------------------------------
\* json.loads (main.py 149) on the subset of JSON the replies are drawn
\* from: objects, arrays, strings without escapes, non-negative integers
\* ------------------------------------------------------------------------

Digits == {"0", "1", "2", "3", "4", "5", "6", "7", "8", "9"}

DigitVal ==
    "0" :> 0 @@ "1" :> 1 @@ "2" :> 2 @@ "3" :> 3 @@ "4" :> 4 @@
    "5" :> 5 @@ "6" :> 6 @@ "7" :> 7 @@ "8" :> 8 @@ "9" :> 9

ParseFail == [ok |-> FALSE, val |-> None, next |-> 0]
ParseOk(val, next) == [ok |-> TRUE, val |-> val, next |-> next]

RECURSIVE SkipWs(_, _)
SkipWs(t, i) == IF At(t, i) \in Whitespace THEN SkipWs(t, i + 1) ELSE i

\* index of the closing quote of the string whose content starts at i
RECURSIVE StrEnd(_, _)
StrEnd(t, i) ==
    IF i > Len(t) THEN 0
    ELSE IF t[i] = "\"" THEN i
    ELSE StrEnd(t, i + 1)

\* a string; t[i] is its opening quote.  A raw newline inside a string is
\* an invalid control character.
ParseString(t, i) ==
    LET e == StrEnd(t, i + 1) IN
    IF e = 0 THEN ParseFail
    ELSE LET s == SubSeq(t, i + 1, e - 1) IN
         IF \E k \in 1..Len(s) : s[k] = "\n" THEN ParseFail
         ELSE ParseOk(PyStr(s), e + 1)

RECURSIVE NumEnd(_, _)
NumEnd(t, i) == IF At(t, i) \in Digits THEN NumEnd(t, i + 1) ELSE i

RECURSIVE NumVal(_, _, _)
NumVal(t, i, j) ==
    IF j < i THEN 0 ELSE 10 * NumVal(t, i, j - 1) + DigitVal[t[j]]

\* an integer; t[i] is its first digit.  A leading zero ends the number.
ParseNumber(t, i) ==
    IF t[i] = "0" THEN ParseOk(PyNum(0), i + 1)
    ELSE LET e == NumEnd(t, i) IN ParseOk(PyNum(NumVal(t, i, e - 1)), e)

RECURSIVE ParseValue(_, _)
RECURSIVE ParseMembers(_, _, _)
RECURSIVE ParseElems(_, _, _)

\* the members of an object from position i on, i at a key
ParseMembers(t, i, acc) ==
    IF At(t, i) # "\"" THEN ParseFail
    ELSE LET k == ParseString(t, i) IN
    IF ~k.ok THEN ParseFail
    ELSE LET c == SkipWs(t, k.next) IN
    IF At(t, c) # ":" THEN ParseFail
    ELSE LET val == ParseValue(t, SkipWs(t, c + 1)) IN
    IF ~val.ok THEN ParseFail
    ELSE LET e == SkipWs(t, val.next)
             acc2 == DictSet(acc, k.val.v, val.val) IN
    IF At(t, e) = "}" THEN ParseOk(acc2, e + 1)
    ELSE IF At(t, e) = "," THEN ParseMembers(t, SkipWs(t, e + 1), acc2)
    ELSE ParseFail

\* the elements of an array from position i on, i at a value
ParseElems(t, i, acc) ==
    LET val == ParseValue(t, i) IN
    IF ~val.ok THEN ParseFail
    ELSE LET e == SkipWs(t, val.next)
             acc2 == Append(acc, val.val) IN
    IF At(t, e) = "]" THEN ParseOk(PyList(acc2), e + 1)
    ELSE IF At(t, e) = "," THEN ParseElems(t, SkipWs(t, e + 1), acc2)
    ELSE ParseFail

ParseValue(t, i) ==
    LET c == At(t, i) IN
    IF c = "{" THEN
        LET j == SkipWs(t, i + 1) IN
        IF At(t, j) = "}" THEN ParseOk(EmptyDict, j + 1)
        ELSE ParseMembers(t, j, EmptyDict)
    ELSE IF c = "[" THEN
        LET j == SkipWs(t, i + 1) IN
        IF At(t, j) = "]" THEN ParseOk(PyList(<<>>), j + 1)
        ELSE ParseElems(t, j, <<>>)
    ELSE IF c = "\"" THEN ParseString(t, i)
    ELSE IF c \in Digits THEN ParseNumber(t, i)
    ELSE ParseFail

\* json.loads(text): ok = FALSE stands for json.JSONDecodeError
JsonLoads(text) ==
    LET r == ParseValue(text, SkipWs(text, 1)) IN
    IF r.ok /\ SkipWs(text, r.next) = Len(text) + 1
    THEN [ok |-> TRUE, val |-> r.val]
    ELSE [ok |-> FALSE, val |-> None]

\* ------------------------------------------------------------------------
\* Replies of the model endpoint (the input of main.py 140-143)
\* ------------------------------------------------------------------------

\* JSON text of a string, a member, an object and an array
JStr(s) == <<"\"">> \o s \o <<"\"">>

JMember(k, valText) == JStr(<<k>>) \o <<":">> \o valText

RECURSIVE JoinWith(_, _)
JoinWith(texts, sep) ==
    IF texts = <<>> THEN <<>>
    ELSE IF Len(texts) = 1 THEN texts[1]
    ELSE texts[1] \o sep \o JoinWith(Tail(texts), sep)

JObject(members) == <<"{">> \o JoinWith(members, <<",">>) \o <<"}">>

JArray(elems) == <<"[">> \o JoinWith(elems, <<",">>) \o <<"]">>

\* the structure the prompt asks for (main.py 97-129), one day, one
\* activity, one meal
ActivityText ==
    JObject(<< JMember("time", JStr(<<"9:00", " ", "AM">>)),
               JMember("activity", JStr(<<"Louvre">>)),
               JMember("description", JStr(<<"museum", " ", "visit">>)),
               JMember("duration", JStr(<<"2", " ", "hours">>)),
               JMember("cost", <<"5", "0">>) >>)

MealText ==
    JObject(<< JMember("meal", JStr(<<"breakfast">>)),
               JMember("restaurant", JStr(<<"Cafe">>)),
               JMember("cuisine", JStr(<<"French">>)),
               JMember("cost", <<"2", "0">>) >>)

DayText ==
    JObject(<< JMember("day", <<"1">>),
               JMember("title", JStr(<<"Arrival">>)),
               JMember("activities", JArray(<<ActivityText>>)),
               JMember("meals", JArray(<<MealText>>)),
               JMember("estimated_cost", <<"2", "0", "0">>),
               JMember("travel_tips", JStr(<<"walk">>)) >>)

TotalText == <<"2", "5", "0">>

ListMembers ==
    << JMember("famous_attractions", JArray(<<JStr(<<"Louvre">>)>>)),
       JMember("local_cuisine", JArray(<<JStr(<<"crepe">>)>>)),
       JMember("travel_tips", JArray(<<JStr(<<"walk">>)>>)),
       JMember("packing_suggestions", JArray(<<JStr(<<"umbrella">>)>>)),
       JMember("total_estimated_cost", TotalText) >>

\* a complete itinerary with the given overview string, preceded by the
\* members extra
ItineraryText(extra, overview) ==
    JObject(extra \o
            << JMember("overview", JStr(overview)),
               JMember("daily_itineraries", JArray(<<DayText>>)) >> \o
            ListMembers)

PlainOverview == <<"A", " ", "lovely", " ", "city">>

\* an overview that quotes a fenced snippet
FencedOverview == <<"see", " ">> \o Fence \o <<"{", "}">> \o Fence

InnerNames ==
    {"full", "full_dest", "full_fence", "empty_obj", "no_days",
     "truncated", "array"}

\* the content the model wrote, before any wrapping
Inner(name) ==
    CASE name = "full" -> ItineraryText(<<>>, PlainOverview)
      [] name = "full_dest" ->
            ItineraryText(<<JMember("destination", JStr(<<"Tokyo">>))>>,
                          PlainOverview)
      [] name = "full_fence" -> ItineraryText(<<>>, FencedOverview)
      [] name = "empty_obj" -> <<"{", "}">>
      [] name = "no_days" ->
            JObject(<<JMember("overview", JStr(PlainOverview))>> \o ListMembers)
      [] name = "truncated" ->
            <<"{">> \o JMember("overview", JStr(PlainOverview))
      [] name = "array" -> <<"[", "]">>

WrapNames == {"bare", "json_fence", "plain_fence", "prose", "second_block"}

FirstBlock == <<"note">>

\* the reply text around the content x
Wrap(name, x) ==
    CASE name = "bare" -> x
      [] name = "json_fence" -> FenceJson \o <<"\n">> \o x \o <<"\n">> \o Fence
      [] name = "plain_fence" -> Fence \o <<"\n">> \o x \o <<"\n">> \o Fence
      [] name = "prose" ->
            <<"Here", " ", "it", " ", "is", ":", "\n">> \o
            FenceJson \o <<"\n">> \o x \o <<"\n">> \o Fence \o <<"\n">>
      [] name = "second_block" ->
            Fence \o <<"\n">> \o FirstBlock \o <<"\n">> \o Fence \o <<"\n">> \o
            FenceJson \o <<"\n">> \o x \o <<"\n">> \o Fence

\* exceptions of GenerativeModel / generate_content / response.text
CallErrors == {"auth", "transport", "provider"}

NoReply == [kind |-> "none", inner |-> "", wrap |-> ""]

\* the wrappings each content is tried in
WrapsOf(inner) ==
    CASE inner = "full" -> WrapNames
      [] inner \in {"full_fence", "empty_obj", "truncated"} ->
            {"bare", "json_fence"}
      [] OTHER -> {"bare"}

Replies ==
    [kind : {"error"}, inner : CallErrors, wrap : {""}] \cup
    {r \in [kind : {"text"}, inner : InnerNames, wrap : WrapNames] :
        r.wrap \in WrapsOf(r.inner)}

\* response.text
ReplyText(rep) == Wrap(rep.wrap, Inner(rep.inner))

\* ------------------------------------------------------------------------
\* generate_itinerary_with_gemini (main.py 83-160)
\* ------------------------------------------------------------------------

DestinationKey == <<"destination">>

\* main.py 139-160: the try block and its except paths: the returned
\* itinerary (None on the except paths) and the st.error shown
TryGenerate(dest, rep) ==
    IF rep.kind = "error"
    THEN [itinerary |-> None, error |-> "ai"]
    ELSE LET text == CleanResponse(Strip(ReplyText(rep)))
             r == JsonLoads(text) IN
         IF ~r.ok
         THEN [itinerary |-> None, error |-> "parse"]
         ELSE IF r.val.t # "obj"
         THEN [itinerary |-> None, error |-> "ai"]
         ELSE [itinerary |-> DictSet(r.val, DestinationKey, PyStr(dest)),
               error |-> "none"]

\* main.py 138-160 with a second generate_content call after a failed one
generate_itinerary_with_retry(dest, rep) ==
    LET out == TryGenerate(dest, rep) IN
    [itinerary |-> out.itinerary, error |-> out.error,
     calls |-> IF out.itinerary = None THEN 2 ELSE 1]

\* main.py 83-160: the outcome of one invocation, with the number of
\* generate_content calls it made
generate_itinerary_with_gemini(dest, rep) ==
    LET out == TryGenerate(dest, rep) IN
    [itinerary |-> out.itinerary, error |-> out.error, calls |-> 1]

\* bool(x) of what generate_itinerary_with_gemini returns (main.py 277)
Truthy(val) ==
    /\ val.t # "none"
    /\ val.t = "obj" => DOMAIN val.v # {}

\* ------------------------------------------------------------------------
\* Credential resolution (main.py 70-81)
\* ------------------------------------------------------------------------

\* an environment variable or session key that is not set
Unset == "<unset>"

Keys == {"", "k1", "k2"}

\* bool(api_key) of a key, None standing for an unset one
KeyTruthy(k) == k \notin {"", Unset}

\* os.getenv("GOOGLE_API_KEY") or st.session_state.get("api_key", "")
ResolveKey(env, sess) ==
    IF KeyTruthy(env) THEN env
    ELSE IF sess = Unset THEN "" ELSE sess

\* main.py 74 as "if api_key is not None"
setup_gemini_api_not_none(env, sess) == ResolveKey(env, sess) # Unset

\* the return value of setup_gemini_api; genai.configure only records the key
setup_gemini_api(env, sess) == KeyTruthy(ResolveKey(env, sess))

\* the key genai holds after setup_gemini_api ran
Configured(env, sess, old) ==
    IF KeyTruthy(ResolveKey(env, sess)) THEN ResolveKey(env, sess) ELSE old

\* ------------------------------------------------------------------------
\* Display Results (main.py 285-399)
\* ------------------------------------------------------------------------

\* 'itinerary' not in st.session_state
Absent == [t |-> "absent", v |-> 0]

Key(k) == <<k>>

\* iterating / len() of a value works
Iterable(val) == val.t \in {"arr", "str", "obj"}

IsEmpty(val) ==
    IF val.t = "obj" THEN DOMAIN val.v = {} ELSE val.v = <<>>

\* main.py 328-334: the fields of one meal
MealOK(m) ==
    /\ m.t = "obj"
    /\ Has(m, Key("meal")) /\ m.v[Key("meal")].t = "str"
    /\ Has(m, Key("restaurant"))
    /\ Has(m, Key("cuisine"))
    /\ Has(m, Key("cost"))

\* main.py 317-324 and 383-385: the fields of one activity
ActivityOK(a) ==
    /\ a.t = "obj"
    /\ Has(a, Key("time"))
    /\ Has(a, Key("activity"))
    /\ Has(a, Key("description"))
    /\ Has(a, Key("duration"))
    /\ Has(a, Key("cost"))

\* main.py 310-337: one day renders without an exception; st.columns
\* raises for a count of zero
DayOK(d) ==
    /\ d.t = "obj"
    /\ Has(d, Key("day"))
    /\ Has(d, Key("title"))
    /\ Has(d, Key("estimated_cost")) /\ d.v[Key("estimated_cost")].t = "num"
    /\ Has(d, Key("activities"))
    /\ LET acts == d.v[Key("activities")] IN
       /\ Iterable(acts)
       /\ IF acts.t = "arr"
          THEN \A i \in 1..Len(acts.v) : ActivityOK(acts.v[i])
          ELSE IsEmpty(acts)
    /\ Has(d, Key("meals"))
    /\ LET meals == d.v[Key("meals")] IN
       /\ meals.t = "arr"
       /\ meals.v # <<>>
       /\ \A i \in 1..Len(meals.v) : MealOK(meals.v[i])
    /\ Has(d, Key("travel_tips"))

\* main.py 289-299: the header and the cost metrics render
MetricsRendered(data) ==
    /\ data.t = "obj"
    /\ Has(data, Key("destination"))
    /\ Has(data, Key("overview"))
    /\ Has(data, Key("total_estimated_cost"))
    /\ data.v[Key("total_estimated_cost")].t = "num"

ListKeys ==
    {"famous_attractions", "local_cuisine", "travel_tips",
     "packing_suggestions"}

\* main.py 289-395: the script reaches the "Generate New" button
FullyRendered(data) ==
    /\ MetricsRendered(data)
    /\ \A k \in ListKeys : Has(data, Key(k)) /\ Iterable(data.v[Key(k)])
    /\ Has(data, Key("daily_itineraries"))
    /\ LET days == data.v[Key("daily_itineraries")] IN
       /\ Iterable(days)
       /\ IF days.t = "arr"
          THEN \A i \in 1..Len(days.v) : DayOK(days.v[i])
          ELSE IsEmpty(days)

\* f"{a/b:,.0f}": the quotient rounded to an integer, halves to even
FormatDiv(a, b) ==
    LET q == a \div b
        r == a % b IN
    IF 2 * r < b THEN q
    ELSE IF 2 * r > b THEN q + 1
    ELSE IF q % 2 = 0 THEN q ELSE q + 1

\* no per-person metric on the page
NoMetric == -1

\* main.py 285, 399: which branch the page shows
View(itin) ==
    IF itin = Absent THEN "welcome"
    ELSE IF FullyRendered(itin) THEN "itinerary"
    ELSE "exception"

\* main.py 299: the "Per Person" metric
PerPerson(itin, people) ==
    IF itin # Absent /\ MetricsRendered(itin)
    THEN FormatDiv(itin.v[Key("total_estimated_cost")].v, people)
    ELSE NoMetric

\* main.py 395: the "Generate New" button is on the page
GenerateNewOffered(itin) == itin # Absent /\ FullyRendered(itin)

\* ------------------------------------------------------------------------
\* State
\* ------------------------------------------------------------------------

\* the bounds of the model
MaxCalls == 2
MaxPeople == 2

\* main.py 212-213: the values the number fields start with
DefaultDays == 5
DefaultPeople == 2

\* the choices offered to the user for each widget
Destinations == {<<>>, <<"Paris">>}

\* generate_itinerary_with_gemini on every request and reply of the model:
\* the triples <<destination, reply, outcome>>
Outcomes ==
    {<<d, r, generate_itinerary_with_gemini(d, r)>> :
        d \in Destinations, r \in Replies}

\* the outcome of the call for destination dest when the model returns rep
Outcome(dest, rep) ==
    (CHOOSE o \in Outcomes : o[1] = dest /\ o[2] = rep)[3]
DaysChoices == {DefaultDays, 7}
PeopleChoices == 1..MaxPeople
InterestChoices == {{}, {"Culture", "Food"}}

VARIABLES
    env_key,          \* os.environ["GOOGLE_API_KEY"]
    api_key,          \* st.session_state.api_key
    genai_key,        \* the key genai.configure recorded last
    itinerary,        \* st.session_state.itinerary
    api_key_input,    \* the "Enter Google API Key" field
    destination,      \* the "Destination" field
    num_days,         \* the "Days" field
    num_people,       \* the "People" field
    interests,        \* the "Interests" multiselect
    clicked,          \* the button whose click started the last run
    api_configured,   \* main.py 198; the Generate button is disabled without
    error_msg,        \* the st.error of the last run
    status,           \* the state of the st.status box of the last run
    reply,            \* what the model returned in the last run
    result,           \* what generate_itinerary_with_gemini returned
    key_used,         \* the key the call of the last run was made with
    view,             \* the branch the page shows
    per_person,       \* the "Per Person" metric on the page
    gen_new_offered,  \* the "Generate New" button is on the page
    model_calls,      \* generate_content calls made so far
    accepted_submits, \* submits that passed the input checks so far
    blind_calls,      \* calls made while no credential resolved
    before,           \* st.session_state.itinerary when the last run began
    request_people,   \* num_people of the submit that produced itinerary
    ui_saved,         \* "Save API Key" was pressed at least once
    saved_value,      \* the value saved last
    env_at_startup    \* the environment variable when the process began

vars ==
    <<env_key, api_key, genai_key, itinerary, api_key_input, destination,
      num_days, num_people, interests, clicked, api_configured, error_msg,
      status, reply, result, key_used, view, per_person, gen_new_offered,
      model_calls, accepted_submits, blind_calls, before, request_people,
      ui_saved, saved_value, env_at_startup>>

widgets == <<api_key_input, destination, num_days, num_people, interests>>
credentials == <<env_key, api_key, ui_saved, saved_value, env_at_startup>>
counters == <<model_calls, accepted_submits, blind_calls>>

\* main.py 172, 198, 246, 285-419: what every run of the script recomputes
\* from the credentials e, s, the session itinerary itin and the people field
Render(e, s, itin, people) ==
    /\ api_configured' = setup_gemini_api(e, s)
    /\ genai_key' = Configured(e, s, genai_key)
    /\ view' = View(itin)
    /\ per_person' = PerPerson(itin, people)
    /\ gen_new_offered' = GenerateNewOffered(itin)

\* a run in which generate_btn is False
NoGeneration ==
    /\ error_msg' = "none"
    /\ status' = "none"
    /\ reply' = NoReply
    /\ result' = None
    /\ key_used' = Unset
    /\ UNCHANGED counters

\* the first run of the script, before any interaction (widget defaults of
\* main.py 184-243)
Init ==
    /\ env_key \in {Unset, "k1"}
    /\ api_key = Unset
    /\ genai_key = Configured(env_key, Unset, Unset)
    /\ itinerary = Absent
    /\ api_key_input = ""
    /\ destination = <<>>
    /\ num_days = DefaultDays
    /\ num_people = DefaultPeople
    /\ interests = {"Culture", "Food"}
    /\ clicked = "none"
    /\ api_configured = setup_gemini_api(env_key, Unset)
    /\ error_msg = "none"
    /\ status = "none"
    /\ reply = NoReply
    /\ result = None
    /\ key_used = Unset
    /\ view = "welcome"
    /\ per_person = NoMetric
    /\ gen_new_offered = FALSE
    /\ model_calls = 0
    /\ accepted_submits = 0
    /\ blind_calls = 0
    /\ before = Absent
    /\ request_people = 0
    /\ ui_saved = FALSE
    /\ saved_value = Unset
    /\ env_at_startup = env_key

\* ------------------------------------------------------------------------
\* Runs of the script
\* ------------------------------------------------------------------------

\* main.py 184-188: the user types k into the key field
EditApiKeyInput(k) ==
    /\ k # api_key_input
    /\ api_key_input' = k
    /\ clicked' = "none"
    /\ before' = itinerary
    /\ NoGeneration
    /\ Render(env_key, api_key, itinerary, num_people)
    /\ UNCHANGED <<credentials, itinerary, destination, num_days,
                   num_people, interests, request_people>>

\* main.py 192: the environment variable after a save (drops the write)
SavedEnv_session_only(input, env) == env

\* main.py 192: the environment variable after a save
SavedEnv(input, env) == input

\* main.py 190-195: "Save API Key"
SaveApiKey ==
    /\ api_key' = api_key_input
    /\ env_key' = SavedEnv(api_key_input, env_key)
    /\ ui_saved' = TRUE
    /\ saved_value' = api_key_input
    /\ clicked' = "save"
    /\ before' = itinerary
    /\ NoGeneration
    /\ Render(env_key', api_key', itinerary, num_people)
    /\ UNCHANGED <<env_at_startup, itinerary, widgets, request_people>>

\* main.py 205-209: the user changes the destination field
EditDestination(d) ==
    /\ d # destination
    /\ destination' = d
    /\ clicked' = "none"
    /\ before' = itinerary
    /\ NoGeneration
    /\ Render(env_key, api_key, itinerary, num_people)
    /\ UNCHANGED <<credentials, itinerary, api_key_input, num_days,
                   num_people, interests, request_people>>

\* main.py 212: the user changes the days field
EditDays(n) ==
    /\ n # num_days
    /\ num_days' = n
    /\ clicked' = "none"
    /\ before' = itinerary
    /\ NoGeneration
    /\ Render(env_key, api_key, itinerary, num_people)
    /\ UNCHANGED <<credentials, itinerary, api_key_input, destination,
                   num_people, interests, request_people>>

\* main.py 213: the user changes the people field
EditPeople(n) ==
    /\ n # num_people
    /\ num_people' = n
    /\ clicked' = "none"
    /\ before' = itinerary
    /\ NoGeneration
    /\ Render(env_key, api_key, itinerary, n)
    /\ UNCHANGED <<credentials, itinerary, api_key_input, destination,
                   num_days, interests, request_people>>

\* main.py 224-228: the user changes the interests
EditInterests(i) ==
    /\ i # interests
    /\ interests' = i
    /\ clicked' = "none"
    /\ before' = itinerary
    /\ NoGeneration
    /\ Render(env_key, api_key, itinerary, num_people)
    /\ UNCHANGED <<credentials, itinerary, api_key_input, destination,
                   num_days, num_people, request_people>>

\* main.py 255-258 with the interests check left out
InputError_destination_only(dest, ints) ==
    IF dest = <<>> THEN "destination" ELSE "none"

\* main.py 255-258: the st.error of the input checks, "none" when they pass
InputError(dest, ints) ==
    IF dest = <<>> THEN "destination"
    ELSE IF ints = {} THEN "interests"
    ELSE "none"

\* main.py 278 outside the if: the session takes whatever was returned
Store_unconditional(returned, old) == returned

\* main.py 277-282: what the handler does with the returned itinerary
Store(returned, old) == IF Truthy(returned) THEN returned ELSE old

StatusOf(returned) == IF Truthy(returned) THEN "complete" ELSE "error"

\* main.py 246-282: "Generate AI Itinerary" pressed, the model answering r
Generate(r) ==
    /\ api_configured
    /\ clicked' = "generate"
    /\ before' = itinerary
    /\ IF InputError(destination, interests) # "none"
       THEN /\ error_msg' = InputError(destination, interests)
            /\ status' = "none"
            /\ reply' = NoReply
            /\ result' = None
            /\ key_used' = Unset
            /\ UNCHANGED <<counters, itinerary, request_people>>
       ELSE LET out == Outcome(destination, r) IN
            /\ model_calls < MaxCalls
            /\ accepted_submits' = accepted_submits + 1
            /\ model_calls' = model_calls + out.calls
            /\ blind_calls' =
                  IF KeyTruthy(ResolveKey(env_key, api_key)) THEN blind_calls
                  ELSE blind_calls + out.calls
            /\ key_used' = Configured(env_key, api_key, genai_key)
            /\ reply' = r
            /\ result' = out.itinerary
            /\ error_msg' = out.error
            /\ status' = StatusOf(out.itinerary)
            /\ itinerary' = Store(out.itinerary, itinerary)
            /\ request_people' =
                  IF Truthy(out.itinerary) THEN num_people ELSE request_people
    /\ Render(env_key, api_key, itinerary', num_people)
    /\ UNCHANGED <<credentials, widgets>>

\* main.py 395-397: "Generate New"
GenerateNew ==
    /\ gen_new_offered
    /\ itinerary' = Absent
    /\ request_people' = 0
    /\ clicked' = "generate_new"
    /\ before' = itinerary
    /\ NoGeneration
    /\ Render(env_key, api_key, Absent, num_people)
    /\ UNCHANGED <<credentials, widgets>>

Next ==
    \/ \E k \in Keys : EditApiKeyInput(k)
    \/ SaveApiKey
    \/ \E d \in Destinations : EditDestination(d)
    \/ \E n \in DaysChoices : EditDays(n)
    \/ \E n \in PeopleChoices : EditPeople(n)
    \/ \E i \in InterestChoices : EditInterests(i)
    \/ \E r \in Replies : Generate(r)
    \/ GenerateNew

Spec == Init /\ [][Next]_vars

\* ------------------------------------------------------------------------
\* Properties
\* ------------------------------------------------------------------------

\* the top-level fields of an itinerary (main.py 98-128) with their kinds
RequiredKinds ==
    [k \in {"overview"} |-> "str"] @@
    [k \in {"daily_itineraries"} \cup ListKeys |-> "arr"] @@
    [k \in {"total_estimated_cost"} |-> "num"]

HasRequired(val) ==
    /\ val.t = "obj"
    /\ \A k \in DOMAIN RequiredKinds :
          Has(val, Key(k)) /\ val.v[Key(k)].t = RequiredKinds[k]

\* the last run was an accepted submit whose call or parse failed
FailedAttempt == clicked = "generate" /\ reply # NoReply /\ result = None

\* C1: a generation attempt that ends in a model-call error or a parse
\* failure leaves the session itinerary as it was (a stored one stays stored
\* and on the page, an empty session stays on the welcome page) and the
\* status box ends in the error state.
C1_FailedAttemptKeepsState ==
    FailedAttempt =>
        /\ itinerary = before
        /\ status = "error"
        /\ error_msg \in {"parse", "ai"}
        /\ (before = Absent) = (view = "welcome")

C1_Witness ==
    /\ FailedAttempt
    /\ reply.kind = "error"
    /\ before # Absent
    /\ view = "itinerary"

\* C2: a reply that parses but lacks a required top-level field is rejected
\* and never stored: what the call returns and what the session holds always
\* carry every required top-level field.
C2_NoPartialItinerary ==
    /\ result # None => HasRequired(result)
    /\ itinerary # Absent => HasRequired(itinerary)

\* C3: while neither the environment variable nor the session key is a
\* non-empty string the submit button is disabled and no model call is made.
C3_NoCallWithoutCredential ==
    /\ (~KeyTruthy(env_key) /\ ~KeyTruthy(api_key)) =>
          (~api_configured /\ reply = NoReply)
    /\ blind_calls = 0

C3_Witness ==
    /\ ~KeyTruthy(env_key) /\ ~KeyTruthy(api_key)
    /\ env_at_startup = "k1"
    /\ clicked = "save"
    /\ model_calls > 0
    /\ ~api_configured

\* C4: a submit with an empty destination or no interests shows an error,
\* makes no model call and leaves the session itinerary unchanged; every
\* model call belongs to a submit with a destination and an interest.
C4_InvalidInputRejected ==
    /\ (clicked = "generate" /\ (destination = <<>> \/ interests = {})) =>
          /\ error_msg \in {"destination", "interests"}
          /\ reply = NoReply
          /\ itinerary = before
    /\ reply # NoReply => (destination # <<>> /\ interests # {})

C4_Witness ==
    /\ clicked = "generate"
    /\ destination # <<>>
    /\ interests = {}
    /\ error_msg = "interests"
    /\ before # Absent

\* C5: when the reply is the JSON text of a well-formed itinerary, the
\* returned value is the parsed object with destination set to the
\* destination of the request.
C5_RoundTrip ==
    (reply.kind = "text" /\ reply.wrap = "bare") =>
        LET parsed == JsonLoads(Inner(reply.inner)) IN
        (parsed.ok /\ HasRequired(parsed.val)) =>
            result = DictSet(parsed.val, DestinationKey, PyStr(destination))

\* C6: the fenced text and the bare text of the same content give the same
\* outcome, and of several fenced blocks the first is the one extracted.
C6_FenceEquivalence ==
    /\ (reply.kind = "text" /\ reply.wrap = "json_fence") =>
          result = Outcome(destination,
                           [reply EXCEPT !.wrap = "bare"]).itinerary
    /\ (reply.kind = "text" /\ reply.wrap = "second_block") =>
          result = LET first == JsonLoads(FirstBlock) IN
                   IF first.ok /\ first.val.t = "obj"
                   THEN DictSet(first.val, DestinationKey, PyStr(destination))
                   ELSE None

\* C7: the per-person cost on the page is the total of the itinerary
\* divided by the people count of the request that produced it.
C7_PerPersonOfRequest ==
    view = "itinerary" =>
        per_person =
            FormatDiv(itinerary.v[Key("total_estimated_cost")].v,
                      request_people)

\* C8: until a key is saved through the page the credential is the
\* environment variable's; once one is saved, the credential, the
\* configured/not-configured decision and every call use the saved value.
C8_CredentialResolution ==
    /\ ~ui_saved =>
          ResolveKey(env_key, api_key) =
              (IF env_at_startup = Unset THEN "" ELSE env_at_startup)
    /\ ui_saved =>
          /\ ResolveKey(env_key, api_key) = saved_value
          /\ api_configured = KeyTruthy(saved_value)
          /\ key_used \in {Unset, saved_value}
    /\ key_used \in {Unset, ResolveKey(env_key, api_key)}

C8_Witness ==
    /\ ui_saved
    /\ env_at_startup = "k1"
    /\ saved_value = "k2"
    /\ key_used = "k2"

\* C9: the number of model calls equals the number of submits that passed
\* the credential and input checks; a failure is not retried.
C9_OneCallPerSubmit == model_calls = accepted_submits

C9_Witness ==
    /\ model_calls = MaxCalls
    /\ FailedAttempt
    /\ error_msg = "parse"

\* C10: the session starts empty, is filled only by a successful generation,
\* and whenever it holds an itinerary "Generate New" is on the page.
C10_Lifecycle ==
    /\ model_calls = 0 => itinerary = Absent
    /\ (itinerary # Absent /\ itinerary # before) =>
          (clicked = "generate" /\ status = "complete")
    /\ itinerary # Absent => gen_new_offered

====
